---- MODULE Spec2Model ----
(***************************************************************************)
(* The ETL of the data warehouse (scripts/python): the provisioning of the  *)
(* database by SQL scripts (init_db.py), the load of the CSV files into the *)
(* bronze tables (bronze.py), and the silver layer (silver.py): extraction  *)
(* of the bronze tables, truncation of the silver tables, and the per-table *)
(* cleaning rules followed by the append into silver.  app.py runs the      *)
(* three stages in a row; silver.py also runs on its own.                   *)
(*                                                                         *)
(* Scalars.  A cell of a DataFrame is Null (None / NaN / NaT) or a typed   *)
(* record: an integer IntV(k), a number Num (an exact rational n/d         *)
(* standing for the float64 of the column), a string Str(<<chars>>) or a   *)
(* timestamp Ts.  Strings are sequences of one-character strings so that   *)
(* strip, upper, slicing and replace are computed character by character.  *)
(***************************************************************************)
EXTENDS Integers, Sequences, FiniteSets, TLC

VARIABLES
    files,         \* ./datasets: table name -> rows of its CSV file
    bronze,        \* bronze schema: table name -> sequence of rows
    dfs,           \* run_silver_layer's dfs: table name -> extracted DataFrame
    data_frames,   \* extract_data's data_frames: the tables read so far
    silver,        \* silver schema: table name -> sequence of rows
    pc,            \* position of the process
    script,        \* set_up_data_warehouse: index of the next of SQL_SCRIPTS
    exit_code,     \* status of the process: "running", 0 or 1
    current_date,  \* pd.Timestamp("today") read by clean_and_load_erp_cust_az12
    astype_null,   \* what astype(str) makes of a missing value in this build
    loaded,        \* the silver tables this run has appended to
    error,         \* the cause of the error the run logged, "" if none
    log,           \* the commands the process has issued, with their outcomes
    previous       \* silver and current_date at the end of the run before, or Null

vars == <<files, bronze, dfs, data_frames, silver, pc, script, exit_code,
          current_date, astype_null, loaded, error, log, previous>>

\* ---------------------------------------------------------------- bounds

MaxVal == 2        \* sales, quantity, price and cost range over -MaxVal..MaxVal
MaxStrLen == 3     \* raw code strings have at most this many characters
MaxDay == 3        \* create, start and birth dates range over days 1..MaxDay
MaxRows == 2       \* a bronze table with several rows has at most this many
MaxId == 2         \* customer ids range over 1..MaxId

\* --------------------------------------------------------------- scalars

Null == [null |-> TRUE]
\* An exception, with its cause.
Raise(cause) == [raise |-> cause]
IsRaise(x) == DOMAIN x = {"raise"}

IntV(k) == [int |-> k]
Str(s) == [str |-> s]
\* The missing value of the missing-aware str dtype: it is NaN, not None.
NaStr == [na |-> TRUE]
IsNull(x) == x = Null \/ x = NaStr

Abs(k) == IF k < 0 THEN -k ELSE k

RECURSIVE GCD(_, _)
GCD(a, b) == IF b = 0 THEN a ELSE GCD(b, a % b)

\* The number n/d in lowest terms with a positive denominator.
Num(n, d) ==
    LET g == GCD(Abs(n), Abs(d))
        s == IF d < 0 THEN -1 ELSE 1
    IN  [n |-> (s * n) \div g, d |-> (s * d) \div g]

NumOfInt(k) == Num(k, 1)

\* Python arithmetic on the scalars of a row; NaN propagates, a comparison
\* with NaN is False, != with NaN is True, and division by zero raises
\* ZeroDivisionError.
NumMul(a, b) ==
    IF IsNull(a) \/ IsNull(b) THEN Null ELSE Num(a.n * b.n, a.d * b.d)

NumDiv(a, b) ==
    IF ~IsNull(b) /\ b.n = 0 THEN Raise("ZeroDivisionError")
    ELSE IF IsNull(a) \/ IsNull(b) THEN Null
    ELSE Num(a.n * b.d, a.d * b.n)

NumAbs(a) == IF IsNull(a) THEN Null ELSE Num(Abs(a.n), a.d)

NumNeg(a) == ~IsNull(a) /\ a.n < 0

NumNe(a, b) == IsNull(a) \/ IsNull(b) \/ a # b

NumAdd(a, b) == Num(a.n * b.d + b.n * a.d, a.d * b.d)

\* --------------------------------------------------------------- strings

IsSpace(c) == c = " "

UpperChar(c) ==
    CASE c = "m" -> "M"
      [] c = "f" -> "F"
      [] c = "s" -> "S"
      [] c = "d" -> "D"
      [] c = "e" -> "E"
      [] c = "u" -> "U"
      [] c = "r" -> "R"
      [] c = "t" -> "T"
      [] OTHER -> c

\* str.upper()
Upper(s) == [i \in 1..Len(s) |-> UpperChar(s[i])]

RECURSIVE LStrip(_)
LStrip(s) == IF s # <<>> /\ IsSpace(Head(s)) THEN LStrip(Tail(s)) ELSE s

RECURSIVE RStrip(_)
RStrip(s) ==
    IF s # <<>> /\ IsSpace(s[Len(s)]) THEN RStrip(SubSeq(s, 1, Len(s) - 1)) ELSE s

\* str.strip()
Strip(s) == RStrip(LStrip(s))

\* s[:k] and s[k:]
Prefix(s, k) == SubSeq(s, 1, IF k < Len(s) THEN k ELSE Len(s))
Suffix(s, k) == SubSeq(s, k + 1, Len(s))

\* s.replace(a, b) for one-character a and b
Replace(s, a, b) == [i \in 1..Len(s) |-> IF s[i] = a THEN b ELSE s[i]]

\* s.replace(a, "") for a one-character a
RECURSIVE Remove(_, _)
Remove(s, a) ==
    IF s = <<>> THEN <<>>
    ELSE IF Head(s) = a THEN Remove(Tail(s), a)
    ELSE <<Head(s)>> \o Remove(Tail(s), a)

\* All strings over the alphabet cs of length at most k.
RECURSIVE StringsUpTo(_, _)
StringsUpTo(cs, k) ==
    IF k = 0 THEN {<<>>}
    ELSE LET shorter == StringsUpTo(cs, k - 1)
         IN  shorter \cup {Append(s, c) : s \in shorter, c \in cs}

\* Series.astype(str) of a missing value: the text "None" (an object column
\* holding None), the text "nan" (a float NaN), or, where str is the
\* missing-aware string dtype, still missing.
NoneText == Str(<<"N", "o", "n", "e">>)
NanText == Str(<<"n", "a", "n">>)
AstypeStrOfNull == {NoneText, NanText, NaStr}

\* ------------------------------------------------------------ sequences

SeqMap(Op(_), s) == [i \in 1..Len(s) |-> Op(s[i])]

AnyRaise(s) == \E i \in 1..Len(s) : IsRaise(s[i])
FirstRaise(s) == s[CHOOSE i \in 1..Len(s) : IsRaise(s[i]) /\ \A j \in 1..(i - 1) : ~IsRaise(s[j])]

\* ---------------------------------------------------------------- tables

\* utils.psql_commands.TABLES: for each source, its tables in load order (the
\* CSV file names paired with them are left out).
TABLES ==
    [crm |-> << "crm_customer_info", "crm_prd_info", "crm_sales_details" >>,
     erp |-> << "erp_cust_az12", "erp_loc_a101", "erp_px_cat_g1v2" >>]

\* tables_files of run_silver_layer: TABLES flattened, the CRM tables, then
\* the ERP tables.
TablesFiles == TABLES.crm \o TABLES.erp

Tables == {TablesFiles[i] : i \in 1..Len(TablesFiles)}

\* A row left in a silver table by an earlier run.
StaleRow == [stale |-> TRUE]

\* ------------------------------------------------- crm_sales_details rule

\* len(str(x)) of a positive integer
RECURSIVE NumDigits(_)
NumDigits(x) == IF x < 10 THEN 1 ELSE 1 + NumDigits(x \div 10)

IsLeapYear(y) == (y % 4 = 0 /\ y % 100 # 0) \/ y % 400 = 0

DaysInMonth(y, m) ==
    CASE m \in {4, 6, 9, 11} -> 30
      [] m = 2 -> IF IsLeapYear(y) THEN 29 ELSE 28
      [] OTHER -> 31

\* datetime.strptime(str(x), "%Y%m%d").date() of an 8-digit x: the date, or
\* ValueError when the month or the day is not one of the calendar.
Strptime(x) ==
    LET y == x \div 10000
        m == (x \div 100) % 100
        d == x % 100
    IN  IF m \in 1..12 /\ d >= 1 /\ d <= DaysInMonth(y, m)
        THEN [year |-> y, month |-> m, day |-> d]
        ELSE Raise("ValueError")

MapCrmSalesDetailsDateColumns(x) ==
    IF x.int <= 0 \/ NumDigits(x.int) # 8 \/ x.int > 20500101 \/ x.int < 19000101
    THEN Null
    ELSE Strptime(x.int)

\* The rule without its last step: a sales value that does not match
\* price * quantity is left as it is.
SalesRuleWithoutRecompute(row) ==
    LET price1 == IF IsNull(row.sls_price)
                  THEN NumDiv(row.sls_sales, row.sls_quantity)
                  ELSE row.sls_price
    IN  IF IsRaise(price1) THEN price1
        ELSE
        LET price2 == IF NumNeg(price1) THEN NumAbs(price1) ELSE price1
            sales2 == IF NumNeg(price1) THEN NumMul(price2, row.sls_quantity)
                      ELSE row.sls_sales
        IN  [row EXCEPT !.sls_price = price2, !.sls_sales = sales2]

\* The rule with its first two steps exchanged: the sign of the price is
\* tested before a missing price is derived.
SalesRuleSignBeforeDerive(row) ==
    LET price1 == IF NumNeg(row.sls_price) THEN NumAbs(row.sls_price)
                  ELSE row.sls_price
        price2 == IF IsNull(price1)
                  THEN NumDiv(row.sls_sales, row.sls_quantity)
                  ELSE price1
    IN  IF IsRaise(price2) THEN price2
        ELSE [row EXCEPT !.sls_price = price2,
                         !.sls_sales = NumMul(row.sls_quantity, price2)]

SalesAndPriceToBusinessRule(row) ==
    LET price1 == IF IsNull(row.sls_price)
                  THEN NumDiv(row.sls_sales, row.sls_quantity)
                  ELSE row.sls_price
    IN  IF IsRaise(price1) THEN price1
        ELSE
        LET price2 == IF NumNeg(price1) THEN NumAbs(price1) ELSE price1
            sales2 == IF NumNeg(price1) THEN NumMul(price2, row.sls_quantity)
                      ELSE row.sls_sales
            sales3 == IF NumNe(sales2, NumMul(price2, row.sls_quantity))
                      THEN NumMul(row.sls_quantity, price2)
                      ELSE sales2
        IN  [row EXCEPT !.sls_price = price2, !.sls_sales = sales3]

\* The three date columns are decoded one after the other, each over the
\* whole frame, then the business rule is applied row by row; the first
\* exception ends the cleaning. The result is the cleaned frame or the
\* exception.
CleanCrmSalesDetails(df) ==
    LET order == [i \in 1..Len(df) |-> MapCrmSalesDetailsDateColumns(df[i].sls_order_dt)]
        ship == [i \in 1..Len(df) |-> MapCrmSalesDetailsDateColumns(df[i].sls_ship_dt)]
        due == [i \in 1..Len(df) |-> MapCrmSalesDetailsDateColumns(df[i].sls_due_dt)]
    IN  IF AnyRaise(order) THEN FirstRaise(order)
        ELSE IF AnyRaise(ship) THEN FirstRaise(ship)
        ELSE IF AnyRaise(due) THEN FirstRaise(due)
        ELSE LET rows == [i \in 1..Len(df) |->
                             SalesAndPriceToBusinessRule(
                                 [df[i] EXCEPT !.sls_order_dt = order[i],
                                               !.sls_ship_dt = ship[i],
                                               !.sls_due_dt = due[i]])]
             IN  IF AnyRaise(rows) THEN FirstRaise(rows) ELSE [rows |-> rows]

\* ----------------------------------------------------------- timestamps

\* A pandas Timestamp: a day number and a time of day (0 is midnight).
Ts(day, tod) == [day |-> day, tod |-> tod]
IsTs(x) == DOMAIN x = {"day", "tod"}
TsLt(a, b) == a.day < b.day \/ (a.day = b.day /\ a.tod < b.tod)
IsNum(x) == DOMAIN x = {"n", "d"}

\* pd.to_datetime(..., errors="coerce") and pd.to_numeric(..., errors="coerce")
ToDatetimeCoerce(x) == IF IsTs(x) THEN x ELSE Null
ToNumericCoerce(x) == IF IsNum(x) THEN x ELSE Null

\* ------------------------------------------------ texts the rules produce

MaleText == Str(<<"M", "a", "l", "e">>)
FemaleText == Str(<<"F", "e", "m", "a", "l", "e">>)
MarriedText == Str(<<"M", "a", "r", "r", "i", "e", "d">>)
SingleText == Str(<<"S", "i", "n", "g", "l", "e">>)
NAText == Str(<<"N", "/", "A">>)
GermanyText == Str(<<"G", "e", "r", "m", "a", "n", "y">>)
UnitedStatesText ==
    Str(<<"U", "n", "i", "t", "e", "d", " ", "S", "t", "a", "t", "e", "s">>)
MountainText == Str(<<"M", "o", "u", "n", "t", "a", "i", "n">>)
RoadText == Str(<<"R", "o", "a", "d">>)
OtherSalesText == Str(<<"O", "t", "h", "e", "r", " ", "S", "a", "l", "e", "s">>)
TouringText == Str(<<"T", "o", "u", "r", "i", "n", "g">>)

\* ------------------------------------------------- crm_customer_info rule

\* Series.str.strip() of a "string" column: a missing value stays missing.
StrStrip(x) == IF IsNull(x) THEN Null ELSE Str(Strip(x.str))

\* The order with the dates ascending: the oldest row of an id comes first.
CustomerSortsBeforeAscending(a, b) ==
    \/ a.cst_id.int < b.cst_id.int
    \/ /\ a.cst_id = b.cst_id
       /\ ~IsNull(a.cst_create_date)
       /\ \/ IsNull(b.cst_create_date)
          \/ TsLt(a.cst_create_date, b.cst_create_date)

\* The order of sort_values(by=["cst_id", "cst_create_date"],
\* ascending=[True, False]): ids ascending, then dates descending with the
\* missing dates last.
CustomerSortsBefore(a, b) ==
    \/ a.cst_id.int < b.cst_id.int
    \/ /\ a.cst_id = b.cst_id
       /\ ~IsNull(a.cst_create_date)
       /\ \/ IsNull(b.cst_create_date)
          \/ TsLt(b.cst_create_date, a.cst_create_date)

\* x placed in the sorted s behind every row it does not sort before.
RECURSIVE InsertCustomer(_, _)
InsertCustomer(s, x) ==
    IF s = <<>> THEN <<x>>
    ELSE IF CustomerSortsBefore(x, Head(s)) THEN <<x>> \o s
    ELSE <<Head(s)>> \o InsertCustomer(Tail(s), x)

\* The stable sort of sort_values: rows that compare equal keep their order.
RECURSIVE SortCustomers(_)
SortCustomers(df) ==
    IF df = <<>> THEN <<>>
    ELSE InsertCustomer(SortCustomers(SubSeq(df, 1, Len(df) - 1)), df[Len(df)])

\* df.dropna(subset=["cst_id"])
DropNaCstId(df) == SelectSeq(df, LAMBDA r : ~IsNull(r.cst_id))

\* df.drop_duplicates(subset=["cst_id"], keep="first")
RECURSIVE DropDuplicatesFrom(_, _)
DropDuplicatesFrom(df, i) ==
    IF i > Len(df) THEN <<>>
    ELSE (IF \E j \in 1..(i - 1) : df[j].cst_id = df[i].cst_id
          THEN <<>> ELSE <<df[i]>>) \o DropDuplicatesFrom(df, i + 1)

DropDuplicatesCstId(df) == DropDuplicatesFrom(df, 1)

\* The gender mapping without upper(): only the capital codes are mapped.
MapCstGndrCaseSensitive(x) ==
    IF ~IsNull(x) /\ x.str = <<"M">> THEN MaleText
    ELSE IF ~IsNull(x) /\ x.str = <<"F">> THEN FemaleText
    ELSE NAText

MapCstGndr(x) ==
    IF ~IsNull(x) /\ Upper(x.str) = <<"M">> THEN MaleText
    ELSE IF ~IsNull(x) /\ Upper(x.str) = <<"F">> THEN FemaleText
    ELSE NAText

MapCstMaritalStatus(x) ==
    IF ~IsNull(x) /\ Upper(x.str) = <<"M">> THEN MarriedText
    ELSE IF ~IsNull(x) /\ Upper(x.str) = <<"S">> THEN SingleText
    ELSE NAText

CleanCrmCustomerInfoRow(r) ==
    [r EXCEPT !.cst_firstname = StrStrip(r.cst_firstname),
              !.cst_lastname = StrStrip(r.cst_lastname),
              !.cst_gndr = MapCstGndr(StrStrip(r.cst_gndr)),
              !.cst_marital_status = MapCstMaritalStatus(StrStrip(r.cst_marital_status))]

CleanCrmCustomerInfo(df) ==
    SeqMap(CleanCrmCustomerInfoRow,
           DropDuplicatesCstId(SortCustomers(DropNaCstId(df))))

\* ------------------------------------------------------ crm_prd_info rule

MapPrdLineCategory(x) ==
    IF IsNull(x) THEN NAText
    ELSE LET code == Upper(Strip(x.str))
         IN  CASE code = <<"M">> -> MountainText
               [] code = <<"R">> -> RoadText
               [] code = <<"S">> -> OtherSalesText
               [] code = <<"T">> -> TouringText
               [] OTHER -> NAText

\* Timestamp - pd.Timedelta(days=1); NaT stays NaT.
MinusOneDay(t) == IF IsNull(t) THEN Null ELSE Ts(t.day - 1, t.tod)

\* groupby("prd_key")["prd_start_dt"].shift(-1) at row i: the start date of
\* the next row of the frame that has the same prd_key, missing if none.
ShiftedStart(df, i) ==
    LET later == {j \in (i + 1)..Len(df) : df[j].prd_key = df[i].prd_key}
    IN  IF later = {} THEN Null
        ELSE df[CHOOSE j \in later : \A k \in later : j <= k].prd_start_dt

PrdEndDt(df, i) == MinusOneDay(ShiftedStart(df, i))

RECURSIVE SumCosts(_)
SumCosts(costs) ==
    IF costs = <<>> THEN NumOfInt(0)
    ELSE NumAdd(Head(costs), SumCosts(Tail(costs)))

\* Series.mean(): the mean of the values that are not missing, NaN if all are.
PrdCostMean(df) ==
    LET present == SelectSeq([i \in 1..Len(df) |-> df[i].prd_cost],
                             LAMBDA c : ~IsNull(c))
    IN  IF present = <<>> THEN Null
        ELSE NumDiv(SumCosts(present), NumOfInt(Len(present)))

ImputePrdCost(x, prd_cost_mean) ==
    IF NumNeg(x) \/ IsNull(x) THEN prd_cost_mean ELSE x

CleanCrmPrdInfo(df) ==
    LET cast == [i \in 1..Len(df) |->
                    [df[i] EXCEPT !.prd_cost = ToNumericCoerce(df[i].prd_cost),
                                  !.prd_start_dt = ToDatetimeCoerce(df[i].prd_start_dt)]]
        prd_cost_mean == PrdCostMean(cast)
    IN  [i \in 1..Len(df) |->
            [prd_key |-> Str(Suffix(cast[i].prd_key.str, 6)),
             cat_id |-> Str(Replace(Prefix(cast[i].prd_key.str, 5), "-", "_")),
             prd_cost |-> ImputePrdCost(cast[i].prd_cost, prd_cost_mean),
             prd_line |-> MapPrdLineCategory(cast[i].prd_line),
             prd_start_dt |-> cast[i].prd_start_dt,
             prd_end_dt |-> PrdEndDt(cast, i)]]

\* ----------------------------------------------------- erp_cust_az12 rule

StartsWith(s, p) == Len(s) >= Len(p) /\ SubSeq(s, 1, Len(p)) = p

CleanCid(cid) ==
    IF StartsWith(cid.str, <<"N", "A", "S">>)
    THEN Str(Strip(Suffix(cid.str, 3)))
    ELSE cid

\* The birthdate test with <= for <: a birthdate at the very instant of the
\* run is kept.
CleanBdateNotAfter(bdate, today) ==
    LET parsed == ToDatetimeCoerce(bdate)
    IN  IF ~IsNull(parsed) /\ ~TsLt(today, parsed) THEN parsed ELSE Null

\* df["bdate"].where(df["bdate"] < current_date, pd.NaT)
CleanBdate(bdate, today) ==
    LET parsed == ToDatetimeCoerce(bdate)
    IN  IF ~IsNull(parsed) /\ TsLt(parsed, today) THEN parsed ELSE Null

\* Series.astype(str).str.strip(): a missing value becomes nullText.
AstypeStrStrip(x, nullText) ==
    IF IsNull(x) THEN nullText ELSE Str(Strip(x.str))

\* The three df.loc assignments on gen, one after the other.
CleanGen(gen, nullText) ==
    LET g0 == AstypeStrStrip(gen, nullText)
        g1 == IF ~IsNull(g0) /\ Upper(Strip(g0.str)) = <<"F">> THEN FemaleText ELSE g0
        g2 == IF ~IsNull(g1) /\ Upper(Strip(g1.str)) = <<"M">> THEN MaleText ELSE g1
    IN  IF ~IsNull(g2) /\ Len(g2.str) = 0 THEN NAText ELSE g2

CleanErpCustAz12(df, today, nullText) ==
    [i \in 1..Len(df) |->
        [cid |-> CleanCid(df[i].cid),
         bdate |-> CleanBdate(df[i].bdate, today),
         gen |-> CleanGen(df[i].gen, nullText)]]

\* ------------------------------------------------------ erp_loc_a101 rule

MapErpLocA101Cntry(x) ==
    CASE x = Null -> NAText
      [] x = Str(<<"D", "E">>) -> GermanyText
      [] x \in {Str(<<"U", "S", "A">>), Str(<<"U", "S">>)} -> UnitedStatesText
      [] x = Str(<<>>) -> NAText
      [] OTHER -> x

CleanLocCid(cid, nullText) ==
    LET c == AstypeStrStrip(cid, nullText)
    IN  IF IsNull(c) THEN c ELSE Str(Remove(c.str, "-"))

CleanErpLocA101(df, nullText) ==
    [i \in 1..Len(df) |->
        [cid |-> CleanLocCid(df[i].cid, nullText),
         cntry |-> MapErpLocA101Cntry(AstypeStrStrip(df[i].cntry, nullText))]]

\* ------------------------------------------------------- run_silver_layer

TableIndex(t) == CHOOSE i \in 1..Len(TablesFiles) : TablesFiles[i] = t

\* One entry of the trace of commands the process has issued: a psql call,
\* a read_sql, a cleaning or a to_sql, with its outcome ("ok", "failed" or
\* "raised") and, for a psql script, the error text of psql.
Event(op, on, result) == [op |-> op, on |-> on, result |-> result, stderr |-> <<>>]

\* No frame: the value of dfs and data_frames before any table is read.
NoFrames == [t \in {} |-> <<>>]

\* An exit that reports success: sys.exit(0) in place of sys.exit(1).
ExitWithZero(cause) ==
    /\ pc' = "failed"
    /\ exit_code' = 0
    /\ error' = cause

\* The except clause of run_silver_layer, and sys.exit(1) of truncate_tables.
Exit1(cause) ==
    /\ pc' = "failed"
    /\ exit_code' = 1
    /\ error' = cause

RunSilverLayer ==
    /\ pc = "idle"
    /\ pc' = "extract"
    /\ UNCHANGED <<files, bronze, dfs, data_frames, silver, script, exit_code,
                   current_date, astype_null, loaded, error, log, previous>>

\* An extraction that swallows a failed read and returns the frames read so
\* far.
ExtractDataReturnsPartial ==
    /\ pc = "extract"
    /\ \E k \in 0..Len(TablesFiles) :
          /\ data_frames' = [t \in {TablesFiles[i] : i \in 1..k} |-> bronze[t]]
          /\ dfs' = data_frames'
          /\ log' = log \o [i \in 1..k |-> Event("read_sql", TablesFiles[i], "ok")]
                        \o (IF k = Len(TablesFiles) THEN <<>>
                            ELSE <<Event("read_sql", TablesFiles[k + 1], "raised")>>)
          /\ pc' = "truncate"
          /\ UNCHANGED <<exit_code, error>>
    /\ UNCHANGED <<files, bronze, silver, script, current_date, astype_null,
                   loaded, previous>>

\* extract_data: the bronze tables are read in order into data_frames; with
\* k below the number of tables the next read raises, and data_frames is not
\* returned.
ExtractData ==
    /\ pc = "extract"
    /\ \E k \in 0..Len(TablesFiles) :
          /\ data_frames' = [t \in {TablesFiles[i] : i \in 1..k} |-> bronze[t]]
          /\ IF k = Len(TablesFiles)
             THEN /\ dfs' = data_frames'
                  /\ log' = log \o [i \in 1..k |-> Event("read_sql", TablesFiles[i], "ok")]
                  /\ pc' = "truncate"
                  /\ UNCHANGED <<exit_code, error>>
             ELSE /\ log' = log \o [i \in 1..k |-> Event("read_sql", TablesFiles[i], "ok")]
                                \o <<Event("read_sql", TablesFiles[k + 1], "raised")>>
                  /\ Exit1("read_sql")
                  /\ UNCHANGED dfs
    /\ UNCHANGED <<files, bronze, silver, script, current_date, astype_null,
                   loaded, previous>>

\* A truncation that logs a failed TRUNCATE and lets the run go on.
TruncateTablesGoesOn ==
    /\ pc = "truncate"
    /\ \E k \in 0..Len(TablesFiles) :
          /\ silver' = [t \in Tables |->
                           IF TableIndex(t) <= k THEN <<>> ELSE silver[t]]
          /\ log' = log \o [i \in 1..k |->
                               Event("truncate_silver", TablesFiles[i], "ok")]
                        \o (IF k = Len(TablesFiles) THEN <<>>
                            ELSE <<Event("truncate_silver", TablesFiles[k + 1], "failed")>>)
          /\ pc' = "crm_customer_info"
          /\ UNCHANGED <<exit_code, error>>
    /\ UNCHANGED <<files, bronze, dfs, data_frames, script, current_date,
                   astype_null, loaded, previous>>

\* A truncation that issues its commands and removes no row.
TruncateTablesKeepsRows ==
    /\ pc = "truncate"
    /\ log' = log \o [i \in 1..Len(TablesFiles) |->
                         Event("truncate_silver", TablesFiles[i], "ok")]
    /\ pc' = "crm_customer_info"
    /\ UNCHANGED <<files, bronze, dfs, data_frames, silver, script, exit_code,
                   current_date, astype_null, loaded, error, previous>>

\* truncate_tables: the first k tables are truncated; with k below the number
\* of tables the next TRUNCATE fails and the process exits.
TruncateTables ==
    /\ pc = "truncate"
    /\ \E k \in 0..Len(TablesFiles) :
          /\ silver' = [t \in Tables |->
                           IF TableIndex(t) <= k THEN <<>> ELSE silver[t]]
          /\ IF k = Len(TablesFiles)
             THEN /\ log' = log \o [i \in 1..k |->
                                       Event("truncate_silver", TablesFiles[i], "ok")]
                  /\ pc' = "crm_customer_info"
                  /\ UNCHANGED <<exit_code, error>>
             ELSE /\ log' = log \o [i \in 1..k |->
                                       Event("truncate_silver", TablesFiles[i], "ok")]
                                \o <<Event("truncate_silver", TablesFiles[k + 1], "failed")>>
                  /\ Exit1("truncate")
    /\ UNCHANGED <<files, bronze, dfs, data_frames, script, current_date,
                   astype_null, loaded, previous>>

\* A load inside one transaction with the loads before it: a failure empties
\* every table the run has appended to.
ToSqlRollsBack(table, cleaned, next) ==
    \E ok \in BOOLEAN :
        IF ~IsRaise(cleaned) /\ ok
        THEN /\ silver' = [silver EXCEPT ![table] = @ \o cleaned.rows]
             /\ loaded' = loaded \cup {table}
             /\ log' = log \o <<Event("clean", table, "ok"), Event("to_sql", table, "ok")>>
             /\ pc' = next
             /\ UNCHANGED <<exit_code, error>>
        ELSE /\ silver' = [t \in Tables |-> IF t \in loaded THEN <<>> ELSE silver[t]]
             /\ loaded' = {}
             /\ log' = log \o <<Event("clean", table, "ok"),
                                Event("to_sql", table, "raised")>>
             /\ Exit1("to_sql")

\* df.to_sql(table, if_exists="append") of a cleaned frame and the step to
\* the next table; a failed cleaning or a failed insert raises.
ToSql(table, cleaned, next) ==
    \E ok \in BOOLEAN :
        IF IsRaise(cleaned)
        THEN /\ log' = Append(log, Event("clean", table, "raised"))
             /\ Exit1(cleaned.raise)
             /\ UNCHANGED <<silver, loaded>>
        ELSE IF ok
        THEN /\ silver' = [silver EXCEPT ![table] = @ \o cleaned.rows]
             /\ loaded' = loaded \cup {table}
             /\ log' = log \o <<Event("clean", table, "ok"), Event("to_sql", table, "ok")>>
             /\ pc' = next
             /\ UNCHANGED <<exit_code, error>>
        ELSE /\ log' = log \o <<Event("clean", table, "ok"),
                                Event("to_sql", table, "raised")>>
             /\ Exit1("to_sql")
             /\ UNCHANGED <<silver, loaded>>

CleanAndLoadCrmCustomerInfo ==
    /\ pc = "crm_customer_info"
    /\ ToSql("crm_customer_info",
             [rows |-> CleanCrmCustomerInfo(dfs["crm_customer_info"])],
             "crm_prd_info")
    /\ UNCHANGED <<files, bronze, dfs, data_frames, script, current_date,
                   astype_null, previous>>

CleanAndLoadCrmPrdInfo ==
    /\ pc = "crm_prd_info"
    /\ ToSql("crm_prd_info",
             [rows |-> CleanCrmPrdInfo(dfs["crm_prd_info"])],
             "crm_sales_details")
    /\ UNCHANGED <<files, bronze, dfs, data_frames, script, current_date,
                   astype_null, previous>>

\* A run that goes on to the ERP tables without loading crm_sales_details.
SalesLoadSkipped ==
    /\ pc = "crm_sales_details"
    /\ pc' = "erp_cust_az12"
    /\ UNCHANGED <<files, bronze, dfs, data_frames, silver, script, exit_code,
                   current_date, astype_null, loaded, error, log, previous>>

CleanAndLoadCrmSalesDetails ==
    /\ pc = "crm_sales_details"
    /\ ToSql("crm_sales_details",
             CleanCrmSalesDetails(dfs["crm_sales_details"]),
             "erp_cust_az12")
    /\ UNCHANGED <<files, bronze, dfs, data_frames, script, current_date,
                   astype_null, previous>>

\* The instants pd.Timestamp("today") may return: the day of the run, at
\* midnight or later in the day; the clock does not go back between two runs.
RunDay == MaxDay - 1
Todays == {Ts(RunDay, tod) : tod \in 0..1}

CleanAndLoadErpCustAz12 ==
    /\ pc = "erp_cust_az12"
    /\ \E today \in Todays :
          /\ previous # Null => ~TsLt(today, previous.current_date)
          /\ current_date' = today
          /\ ToSql("erp_cust_az12",
                   [rows |-> CleanErpCustAz12(dfs["erp_cust_az12"], today, astype_null)],
                   "erp_loc_a101")
    /\ UNCHANGED <<files, bronze, dfs, data_frames, script, astype_null, previous>>

CleanAndLoadErpLocA101 ==
    /\ pc = "erp_loc_a101"
    /\ ToSql("erp_loc_a101",
             [rows |-> CleanErpLocA101(dfs["erp_loc_a101"], astype_null)],
             "erp_px_cat_g1v2")
    /\ UNCHANGED <<files, bronze, dfs, data_frames, script, current_date,
                   astype_null, previous>>

LoadErpPxCatG1v2 ==
    /\ pc = "erp_px_cat_g1v2"
    /\ ToSql("erp_px_cat_g1v2", [rows |-> dfs["erp_px_cat_g1v2"]], "finish")
    /\ UNCHANGED <<files, bronze, dfs, data_frames, script, current_date,
                   astype_null, previous>>

\* run_silver_layer returns; the script ends with status 0.
Finish ==
    /\ pc = "finish"
    /\ pc' = "done"
    /\ exit_code' = 0
    /\ UNCHANGED <<files, bronze, dfs, data_frames, silver, script, current_date,
                   astype_null, loaded, error, log, previous>>

Next ==
    \/ RunSilverLayer
    \/ ExtractData
    \/ TruncateTables
    \/ CleanAndLoadCrmCustomerInfo
    \/ CleanAndLoadCrmPrdInfo
    \/ CleanAndLoadCrmSalesDetails
    \/ CleanAndLoadErpCustAz12
    \/ CleanAndLoadErpLocA101
    \/ LoadErpPxCatG1v2
    \/ Finish

\* ------------------------------------------------------- initial states

EmptyBronze == [t \in Tables |-> <<>>]

\* The state before silver.py runs over the bronze tables b: nothing
\* extracted, every silver table holding the rows of an earlier run.
InitWith(b) ==
    /\ files = b
    /\ bronze = b
    /\ dfs = NoFrames
    /\ data_frames = NoFrames
    /\ silver = [t \in Tables |-> <<StaleRow>>]
    /\ pc = "idle"
    /\ script = 1
    /\ exit_code = "running"
    /\ current_date = Null
    /\ astype_null \in AstypeStrOfNull
    /\ loaded = {}
    /\ error = ""
    /\ log = <<>>
    /\ previous = Null

\* crm_sales_details: one row; either its sales, quantity and price range
\* over the missing value and the integers of the bound, or one of its date
\* columns ranges over the date integers.
SalesNums == {Null} \cup {NumOfInt(k) : k \in -MaxVal..MaxVal}

DateYears == {1899, 1900, 1999, 2000, 2023, 2024, 2050, 2051}
DateDays == {0, 1, 2, 28, 29, 30, 31, 32}
DateInputs ==
    {IntV(y * 10000 + m * 100 + d) : y \in DateYears, m \in 0..13, d \in DateDays}
        \cup {IntV(k) : k \in {-20231231, 0, 1, 1231, 2023123, 100000000, 202312310}}

ValidDateInput == IntV(20231231)

SalesValueRows ==
    {[sls_order_dt |-> ValidDateInput, sls_ship_dt |-> ValidDateInput,
      sls_due_dt |-> ValidDateInput,
      sls_sales |-> s, sls_quantity |-> q, sls_price |-> p] :
        s \in SalesNums, q \in SalesNums, p \in SalesNums}

SalesDateRow(o, sh, du) ==
    [sls_order_dt |-> o, sls_ship_dt |-> sh, sls_due_dt |-> du,
     sls_sales |-> NumOfInt(2), sls_quantity |-> NumOfInt(1),
     sls_price |-> NumOfInt(2)]

SalesDateRows ==
    {SalesDateRow(x, ValidDateInput, ValidDateInput) : x \in DateInputs}
        \cup {SalesDateRow(ValidDateInput, x, ValidDateInput) : x \in DateInputs}
        \cup {SalesDateRow(ValidDateInput, ValidDateInput, x) : x \in DateInputs}

InitSales ==
    \E r \in SalesValueRows \cup SalesDateRows :
        InitWith([EmptyBronze EXCEPT !["crm_sales_details"] = <<r>>])

SpecSales == InitSales /\ [][Next]_vars

\* crm_customer_info: up to MaxRows rows whose ids and create dates range
\* over the missing value and the bounds (cst_key tells the rows apart: it is
\* the position of the row in bronze), or one row whose gender code or
\* marital code ranges over the short strings of its alphabet.
CstIds == {Null} \cup {IntV(k) : k \in 1..MaxId}
CreateDates == {Null} \cup {Ts(d, 0) : d \in 1..MaxDay}
GndrChars == {" ", "M", "F", "m", "f", "X"}
MaritalChars == {" ", "M", "S", "m", "s", "X"}
Codes(chars) == {Null} \cup {Str(c) : c \in StringsUpTo(chars, MaxStrLen)}

CustomerRow(key, id, date, gndr, marital) ==
    [cst_id |-> id, cst_key |-> IntV(key),
     cst_firstname |-> Str(<<" ", "J", "o">>), cst_lastname |-> Null,
     cst_marital_status |-> marital, cst_gndr |-> gndr,
     cst_create_date |-> date]

CustomerFrames ==
    UNION {[1..n -> CstIds \X CreateDates] : n \in 1..MaxRows}

InitCustomer ==
    \/ \E f \in CustomerFrames :
          InitWith([EmptyBronze EXCEPT !["crm_customer_info"] =
              [i \in DOMAIN f |-> CustomerRow(i, f[i][1], f[i][2], Null, Null)]])
    \/ \E g \in Codes(GndrChars) :
          InitWith([EmptyBronze EXCEPT !["crm_customer_info"] =
              <<CustomerRow(1, IntV(1), Ts(1, 0), g, Null)>>])
    \/ \E m \in Codes(MaritalChars) :
          InitWith([EmptyBronze EXCEPT !["crm_customer_info"] =
              <<CustomerRow(1, IntV(1), Ts(1, 0), Null, m)>>])

SpecCustomer == InitCustomer /\ [][Next]_vars

\* crm_prd_info (prd_id and prd_nm, which are only carried over, are left
\* out): up to MaxRows rows of one product key whose costs range over the
\* missing value, a text that is no number and the numbers of the bound; or
\* up to MaxRows rows whose keys and start dates vary; or one row whose
\* product line varies.
PrdKeyA == Str(<<"C", "O", "-", "R", "F", "-", "F", "R", "-", "1">>)
PrdKeyB == Str(<<"A", "C", "-", "H", "E", "-", "H", "L", "-", "2">>)
NotANumber == Str(<<"x">>)
NotADate == Str(<<"x">>)
PrdCosts == {Null, NotANumber} \cup {NumOfInt(k) : k \in -MaxVal..MaxVal}
PrdStarts == {Null, NotADate} \cup {Ts(d, 0) : d \in 1..MaxDay}
PrdLines == {Null, Str(<<"m">>), Str(<<" ", "R", " ">>), Str(<<"S">>),
             Str(<<"t">>), Str(<<"X">>)}

PrdRow(key, cost, start, line) ==
    [prd_key |-> key, prd_cost |-> cost, prd_start_dt |-> start, prd_line |-> line]

InitPrd ==
    \/ \E n \in 1..MaxRows : \E f \in [1..n -> PrdCosts] :
          InitWith([EmptyBronze EXCEPT !["crm_prd_info"] =
              [i \in 1..n |-> PrdRow(PrdKeyA, f[i], Ts(1, 0), Null)]])
    \/ \E n \in 1..MaxRows : \E f \in [1..n -> {PrdKeyA, PrdKeyB} \X PrdStarts] :
          InitWith([EmptyBronze EXCEPT !["crm_prd_info"] =
              [i \in 1..n |-> PrdRow(f[i][1], NumOfInt(1), f[i][2], Null)]])
    \/ \E l \in PrdLines :
          InitWith([EmptyBronze EXCEPT !["crm_prd_info"] =
              <<PrdRow(PrdKeyA, NumOfInt(1), Ts(1, 0), l)>>])

SpecPrd == InitPrd /\ [][Next]_vars

\* erp_cust_az12: one row whose gen ranges over the missing value and the
\* short strings of its alphabet, or whose bdate ranges over the missing
\* value, a text that is no date and the instants around the day of the run.
GenChars == {" ", "F", "M", "f", "m", "X"}
Bdates == {Null, NotADate} \cup {Ts(d, tod) : d \in 1..MaxDay, tod \in 0..1}
Cids == {Str(<<"N", "A", "S", " ", "A", "1">>), Str(<<"A", "-", "1">>)}

InitErpCust ==
    \/ \E g \in Codes(GenChars), c \in Cids :
          InitWith([EmptyBronze EXCEPT !["erp_cust_az12"] =
              <<[cid |-> c, bdate |-> Ts(1, 0), gen |-> g]>>])
    \/ \E b \in Bdates, c \in Cids :
          InitWith([EmptyBronze EXCEPT !["erp_cust_az12"] =
              <<[cid |-> c, bdate |-> b, gen |-> Str(<<"F">>)]>>])

SpecErpCust == InitErpCust /\ [][Next]_vars

\* erp_loc_a101: one row whose cntry ranges over the missing value and the
\* short strings of its alphabet.
CntryChars == {" ", "D", "E", "U", "S", "A", "F", "R", "d"}

InitErpLoc ==
    \E x \in Codes(CntryChars), c \in Cids :
        InitWith([EmptyBronze EXCEPT !["erp_loc_a101"] =
            <<[cid |-> c, cntry |-> x]>>])

SpecErpLoc == InitErpLoc /\ [][Next]_vars

\* ================================================================ claims

SalesTable == "crm_sales_details"

\* The preconditions of the sales rule: the quantity is present, and price
\* and sales are not both missing.
SalesPrecondition(row) ==
    /\ ~IsNull(row.sls_quantity)
    /\ ~(IsNull(row.sls_price) /\ IsNull(row.sls_sales))

\* C1: once crm_sales_details has been cleaned and loaded, every row whose
\* input met the preconditions has sls_sales == sls_price * sls_quantity,
\* whatever the input sales and price were.
C1_SalesIsPriceTimesQuantity ==
    SalesTable \in loaded =>
        /\ Len(silver[SalesTable]) = Len(bronze[SalesTable])
        /\ \A i \in 1..Len(bronze[SalesTable]) :
              SalesPrecondition(bronze[SalesTable][i]) =>
                  LET out == silver[SalesTable][i]
                  IN  ~NumNe(out.sls_sales, NumMul(out.sls_price, out.sls_quantity))

\* A loaded row whose input sales did not match price * quantity and was
\* recomputed.
C1_Witness ==
    /\ SalesTable \in loaded
    /\ \E i \in 1..Len(bronze[SalesTable]) :
          LET in == bronze[SalesTable][i]
          IN  /\ SalesPrecondition(in)
              /\ ~IsNull(in.sls_price) /\ ~NumNeg(in.sls_price)
              /\ ~IsNull(in.sls_sales)
              /\ in.sls_sales # NumMul(in.sls_price, in.sls_quantity)
              /\ silver[SalesTable][i].sls_sales # in.sls_sales

\* What the date decoder is claimed to return: the date of an integer that
\* is positive, 8 digits long and within [19000101, 20500101], and null for
\* every other integer.
ClaimedDate(x) ==
    IF x.int > 0 /\ NumDigits(x.int) = 8 /\ x.int >= 19000101 /\ x.int <= 20500101
    THEN [year |-> x.int \div 10000, month |-> (x.int \div 100) % 100,
          day |-> x.int % 100]
    ELSE Null

IsCalendarDate(d) ==
    d.month \in 1..12 /\ d.day \in 1..DaysInMonth(d.year, d.month)

\* C2: the date decoder never raises: no run logs a ValueError, and every
\* decoded column of a loaded row is the date of an in-range 8-digit input
\* and null for every other input, non-calendar inputs such as 19991301
\* included.
C2_DateDecoderNeverRaises ==
    /\ error # "ValueError"
    /\ SalesTable \in loaded =>
          \A i \in 1..Len(bronze[SalesTable]) :
              LET in == bronze[SalesTable][i]
                  out == silver[SalesTable][i]
                  Decoded(x, y) ==
                      LET c == ClaimedDate(x)
                      IN  y = (IF IsNull(c) \/ ~IsCalendarDate(c) THEN Null ELSE c)
              IN  /\ Decoded(in.sls_order_dt, out.sls_order_dt)
                  /\ Decoded(in.sls_ship_dt, out.sls_ship_dt)
                  /\ Decoded(in.sls_due_dt, out.sls_due_dt)

\* C10: no loaded row has a negative sls_price; for a row that met the
\* preconditions the price is the input price if that was present and not
\* negative, its absolute value if it was negative, and the absolute value
\* of sales / quantity if it was missing, and a price made positive comes
\* with sales = price * quantity.
C10_NoNegativePrice ==
    SalesTable \in loaded =>
        \A i \in 1..Len(bronze[SalesTable]) :
            LET in == bronze[SalesTable][i]
                out == silver[SalesTable][i]
            IN  /\ ~NumNeg(out.sls_price)
                /\ SalesPrecondition(in) =>
                      /\ ~IsNull(out.sls_price)
                      /\ (~IsNull(in.sls_price) /\ ~NumNeg(in.sls_price))
                            => out.sls_price = in.sls_price
                      /\ NumNeg(in.sls_price)
                            => out.sls_price = NumAbs(in.sls_price)
                      /\ IsNull(in.sls_price)
                            => out.sls_price =
                                   NumAbs(NumDiv(in.sls_sales, in.sls_quantity))
                      /\ out.sls_quantity = in.sls_quantity

\* A loaded row whose price was missing and derived negative from
\* sales / quantity, then made positive.
C10_Witness ==
    /\ SalesTable \in loaded
    /\ \E i \in 1..Len(bronze[SalesTable]) :
          LET in == bronze[SalesTable][i]
          IN  /\ IsNull(in.sls_price)
              /\ SalesPrecondition(in)
              /\ NumNeg(NumDiv(in.sls_sales, in.sls_quantity))
              /\ ~NumNeg(silver[SalesTable][i].sls_price)

CustomerTable == "crm_customer_info"

\* Date a is more recent than date b; a missing date is older than any date.
MoreRecent(a, b) == ~IsNull(a) /\ (IsNull(b) \/ TsLt(b, a))

\* The position in df of the row that is to survive for id: the first of the
\* rows of that id with the most recent create date.
Survivor(df, id) ==
    CHOOSE i \in 1..Len(df) :
        /\ df[i].cst_id = id
        /\ \A j \in 1..Len(df) :
              df[j].cst_id = id =>
                  /\ ~MoreRecent(df[j].cst_create_date, df[i].cst_create_date)
                  /\ (df[j].cst_create_date = df[i].cst_create_date => i <= j)

InputIds(df) == {df[i].cst_id : i \in 1..Len(df)} \ {Null}

\* C5: once crm_customer_info has been cleaned and loaded, no row has a null
\* cst_id, no two rows share a cst_id, and for each id of the input the one
\* row of that id is the input row with the most recent cst_create_date, the
\* first of them in input order on a tie.
C5_OneLatestRowPerCustomer ==
    CustomerTable \in loaded =>
        LET in == bronze[CustomerTable]
            out == silver[CustomerTable]
        IN  /\ \A i \in 1..Len(out) : ~IsNull(out[i].cst_id)
            /\ \A i, j \in 1..Len(out) : i # j => out[i].cst_id # out[j].cst_id
            /\ {out[i].cst_id : i \in 1..Len(out)} = InputIds(in)
            /\ \A i \in 1..Len(out) :
                  LET w == in[Survivor(in, out[i].cst_id)]
                  IN  /\ out[i].cst_key = w.cst_key
                      /\ out[i].cst_create_date = w.cst_create_date

\* Two input rows of one id, the second more recent than the first, and only
\* the second is loaded.
C5_Witness ==
    /\ CustomerTable \in loaded
    /\ LET in == bronze[CustomerTable]
           out == silver[CustomerTable]
       IN  /\ Len(in) >= 2
           /\ ~IsNull(in[1].cst_id)
           /\ in[1].cst_id = in[2].cst_id
           /\ ~IsNull(in[1].cst_create_date)
           /\ MoreRecent(in[2].cst_create_date, in[1].cst_create_date)
           /\ \E i \in 1..Len(out) : out[i].cst_key = in[2].cst_key
           /\ \A i \in 1..Len(out) : out[i].cst_key # in[1].cst_key

\* The trimmed code of a cell: missing stays missing.
Trimmed(x) == IF IsNull(x) THEN Null ELSE Str(Strip(x.str))

\* The texts a code is mapped to when capital `a` gives ta, capital `b` gives
\* tb, and everything else, the missing value included, gives N/A.
ExactCode(x, a, ta, b, tb) ==
    IF Trimmed(x) = Str(<<a>>) THEN ta
    ELSE IF Trimmed(x) = Str(<<b>>) THEN tb
    ELSE NAText

\* The same, with the lower-case letters la and lb mapped like a and b.
AnyCaseCode(x, a, la, ta, b, lb, tb) ==
    IF Trimmed(x) \in {Str(<<a>>), Str(<<la>>)} THEN ta
    ELSE IF Trimmed(x) \in {Str(<<b>>), Str(<<lb>>)} THEN tb
    ELSE NAText

\* C6 as stated: every loaded cst_gndr is Male, Female or N/A and every
\* cst_marital_status is Married, Single or N/A; the trimmed gender code "M"
\* gives Male, "F" Female and anything else N/A; the trimmed marital code "M"
\* gives Married, "S" Single and anything else N/A.
C6_CodesMappedExactly ==
    CustomerTable \in loaded =>
        LET in == bronze[CustomerTable]
            out == silver[CustomerTable]
        IN  \A i \in 1..Len(out) :
                LET w == in[Survivor(in, out[i].cst_id)]
                IN  /\ out[i].cst_gndr \in {MaleText, FemaleText, NAText}
                    /\ out[i].cst_marital_status \in {MarriedText, SingleText, NAText}
                    /\ out[i].cst_gndr =
                           ExactCode(w.cst_gndr, "M", MaleText, "F", FemaleText)
                    /\ out[i].cst_marital_status =
                           ExactCode(w.cst_marital_status, "M", MarriedText,
                                     "S", SingleText)

\* C6 amended: the codes are compared without regard to case: the trimmed
\* gender code "M" or "m" gives Male, "F" or "f" Female and anything else
\* N/A; the trimmed marital code "M" or "m" gives Married, "S" or "s" Single
\* and anything else N/A; so every value is in its closed set.
C6_CodesMappedIgnoringCase ==
    CustomerTable \in loaded =>
        LET in == bronze[CustomerTable]
            out == silver[CustomerTable]
        IN  \A i \in 1..Len(out) :
                LET w == in[Survivor(in, out[i].cst_id)]
                IN  /\ out[i].cst_gndr \in {MaleText, FemaleText, NAText}
                    /\ out[i].cst_marital_status \in {MarriedText, SingleText, NAText}
                    /\ out[i].cst_gndr =
                           AnyCaseCode(w.cst_gndr, "M", "m", MaleText,
                                       "F", "f", FemaleText)
                    /\ out[i].cst_marital_status =
                           AnyCaseCode(w.cst_marital_status, "M", "m", MarriedText,
                                       "S", "s", SingleText)

\* A loaded row whose gender code was a lower-case "m" between spaces.
C6_Witness ==
    /\ CustomerTable \in loaded
    /\ Len(bronze[CustomerTable]) = 1
    /\ bronze[CustomerTable][1].cst_gndr = Str(<<" ", "m", " ">>)
    /\ silver[CustomerTable][1].cst_gndr = MaleText

PrdTable == "crm_prd_info"

\* A cost that needs no replacement: present, a number, and not negative.
ValidCost(c) == IsNum(c) /\ c.n >= 0

\* The arithmetic mean of the valid costs of df, missing if there is none.
MeanOfValidCosts(df) ==
    LET valid == SelectSeq([i \in 1..Len(df) |-> df[i].prd_cost], ValidCost)
    IN  IF valid = <<>> THEN Null
        ELSE NumDiv(SumCosts(valid), NumOfInt(Len(valid)))

\* C3: once crm_prd_info has been cleaned and loaded, every prd_cost is
\* present and >= 0: a negative, missing or non-numeric input cost has been
\* replaced by the mean of the valid costs of the batch, and a valid cost is
\* unchanged. (Stated for the batches that hold a valid cost, so that the
\* mean exists.)
C3_CostNonNegative ==
    (PrdTable \in loaded /\ ~IsNull(MeanOfValidCosts(bronze[PrdTable]))) =>
        LET in == bronze[PrdTable]
            out == silver[PrdTable]
        IN  \A i \in 1..Len(in) :
                /\ ~IsNull(out[i].prd_cost)
                /\ ~NumNeg(out[i].prd_cost)
                /\ out[i].prd_cost =
                       (IF ValidCost(in[i].prd_cost) THEN in[i].prd_cost
                        ELSE MeanOfValidCosts(in))

\* The start dates of the rows of df that share the key of row i and start
\* later than row i.
LaterStarts(df, i) ==
    {df[j].prd_start_dt : j \in
        {k \in 1..Len(df) :
            /\ df[k].prd_key = df[i].prd_key
            /\ IsTs(df[k].prd_start_dt)
            /\ IsTs(df[i].prd_start_dt)
            /\ TsLt(df[i].prd_start_dt, df[k].prd_start_dt)}}

\* The rows of df have start dates, and no two rows of one key the same.
DistinctStarts(df) ==
    /\ \A i \in 1..Len(df) : IsTs(df[i].prd_start_dt)
    /\ \A i, j \in 1..Len(df) :
          (i # j /\ df[i].prd_key = df[j].prd_key)
              => df[i].prd_start_dt # df[j].prd_start_dt

\* C4: once crm_prd_info has been cleaned and loaded, in whatever order the
\* rows of a product key stood in bronze, the prd_end_dt of a row is the day
\* before the next later prd_start_dt of its key, and it is null for the row
\* with the latest start date of the key. (Stated for the batches whose rows
\* all have a start date, different for the rows of one key.)
C4_EndDateIsNextStartMinusOne ==
    (PrdTable \in loaded /\ DistinctStarts(bronze[PrdTable])) =>
        LET in == bronze[PrdTable]
            out == silver[PrdTable]
        IN  \A i \in 1..Len(in) :
                IsTs(in[i].prd_start_dt) =>
                    LET later == LaterStarts(in, i)
                    IN  out[i].prd_end_dt =
                            (IF later = {} THEN Null
                             ELSE MinusOneDay(
                                      CHOOSE t \in later :
                                          \A u \in later : ~TsLt(u, t)))

ErpCustTable == "erp_cust_az12"

\* C7: once erp_cust_az12 has been cleaned and loaded, every gen is Female,
\* Male or N/A, whatever the input gen was.
C7_GenInClosedSet ==
    ErpCustTable \in loaded =>
        \A i \in 1..Len(silver[ErpCustTable]) :
            silver[ErpCustTable][i].gen \in {FemaleText, MaleText, NAText}

\* C8 as stated: every loaded bdate that is present lies on a day before the
\* day of the run; a birthdate on the day of the run or later, or one that
\* cannot be parsed, is null, and an earlier birthdate is unchanged.
C8_BdateBeforeRunDay ==
    ErpCustTable \in loaded =>
        \A i \in 1..Len(bronze[ErpCustTable]) :
            LET in == bronze[ErpCustTable][i].bdate
                out == silver[ErpCustTable][i].bdate
            IN  /\ ~IsNull(out) => out.day < current_date.day
                /\ out = (IF IsTs(in) /\ in.day < current_date.day THEN in ELSE Null)

\* C8 amended: the birthdate is compared with the instant of the run, date
\* and time of day: every loaded bdate that is present is strictly before
\* that instant; a birthdate at or after it, or one that cannot be parsed, is
\* null, and a strictly earlier birthdate is unchanged, one on the day of the
\* run at an earlier time of day included.
C8_BdateBeforeRunInstant ==
    ErpCustTable \in loaded =>
        \A i \in 1..Len(bronze[ErpCustTable]) :
            LET in == bronze[ErpCustTable][i].bdate
                out == silver[ErpCustTable][i].bdate
                Earlier(t) ==
                    \/ t.day < current_date.day
                    \/ t.day = current_date.day /\ t.tod < current_date.tod
            IN  /\ ~IsNull(out) => Earlier(out)
                /\ out = (IF IsTs(in) /\ Earlier(in) THEN in ELSE Null)

\* A birthdate at midnight of the day of the run, loaded unchanged by a run
\* later that day.
C8_Witness ==
    /\ ErpCustTable \in loaded
    /\ Len(bronze[ErpCustTable]) = 1
    /\ current_date = Ts(RunDay, 1)
    /\ bronze[ErpCustTable][1].bdate = Ts(RunDay, 0)
    /\ silver[ErpCustTable][1].bdate = Ts(RunDay, 0)

ErpLocTable == "erp_loc_a101"

\* The lookup the country is claimed to go through.
ClaimedCntry(x) ==
    LET t == Trimmed(x)
    IN  CASE t = Str(<<"D", "E">>) -> GermanyText
          [] t \in {Str(<<"U", "S", "A">>), Str(<<"U", "S">>)} -> UnitedStatesText
          [] t \in {Str(<<>>), Null} -> NAText
          [] OTHER -> t

\* C9: once erp_loc_a101 has been cleaned and loaded, the cntry of a row is
\* the lookup of its trimmed input: DE gives Germany, USA and US give United
\* States, the empty string and null give N/A, anything else is unchanged.
C9_CntryIsLookupOfInput ==
    ErpLocTable \in loaded =>
        \A i \in 1..Len(bronze[ErpLocTable]) :
            silver[ErpLocTable][i].cntry = ClaimedCntry(bronze[ErpLocTable][i].cntry)

\* A whole run: every bronze table holds a row. The sales row is clean, or
\* divides by zero in the sales rule, or holds a date integer that strptime
\* rejects; the birthdate of the ERP customer ranges over Bdates.
GoodSalesRow == SalesDateRow(ValidDateInput, ValidDateInput, ValidDateInput)
ZeroQuantityRow == [GoodSalesRow EXCEPT !.sls_quantity = NumOfInt(0), !.sls_price = Null]
BadDateRow == SalesDateRow(IntV(20230230), ValidDateInput, ValidDateInput)
RunSalesRows == {GoodSalesRow, ZeroQuantityRow, BadDateRow}

PxCatRow ==
    [id |-> Str(<<"C", "O", "_", "R", "F">>), cat |-> Str(<<"C", "o">>),
     subcat |-> Str(<<"R", "F">>), maintenance |-> Str(<<"Y", "e", "s">>)]

RunBronze(s, b) ==
    [t \in Tables |->
        CASE t = "crm_customer_info" ->
                <<CustomerRow(1, IntV(1), Ts(1, 0), Str(<<"M">>), Str(<<"s">>))>>
          [] t = "crm_prd_info" ->
                <<PrdRow(PrdKeyA, NumOfInt(1), Ts(1, 0), Str(<<"m">>))>>
          [] t = "crm_sales_details" -> <<s>>
          [] t = "erp_cust_az12" ->
                <<[cid |-> Str(<<"N", "A", "S", " ", "A", "1">>), bdate |-> b,
                   gen |-> Str(<<"F">>)]>>
          [] t = "erp_loc_a101" ->
                <<[cid |-> Str(<<"A", "-", "1">>), cntry |-> Str(<<"D", "E">>)]>>
          [] OTHER -> <<PxCatRow>>]

InitRun == \E s \in RunSalesRows, b \in Bdates : InitWith(RunBronze(s, b))

SpecRun == InitRun /\ [][Next]_vars

\* ------------------------------------------------------- order of a run

\* The positions of the log at which the command op on the table t ended
\* with the result r.
At(op, t, r) == {i \in DOMAIN log : log[i] = Event(op, t, r)}

\* The positions at which the command op was issued on t, whatever came of it.
Issued(op, t) == {i \in DOMAIN log : log[i].op = op /\ log[i].on = t}

\* The log of a run that went through: six reads, six truncations, then a
\* cleaning and an append per table, all in the order of TablesFiles.
WholeRunLog ==
    [i \in 1..Len(TablesFiles) |-> Event("read_sql", TablesFiles[i], "ok")]
        \o [i \in 1..Len(TablesFiles) |-> Event("truncate_silver", TablesFiles[i], "ok")]
        \o [i \in 1..(2 * Len(TablesFiles)) |->
               IF i % 2 = 1 THEN Event("clean", TablesFiles[(i + 1) \div 2], "ok")
                            ELSE Event("to_sql", TablesFiles[i \div 2], "ok")]

IsPrefixOf(s, t) == Len(s) <= Len(t) /\ SubSeq(t, 1, Len(s)) = s

\* C11: a silver run goes Idle, Extracting, Truncating, then cleaning and
\* loading of the three CRM tables and of the three ERP tables in the declared
\* order, then Done. No silver table is truncated before every bronze table
\* has been read, no table is appended to before every silver table has been
\* truncated, a table is appended to at most once, no ERP table is appended
\* to before the three CRM tables have been, and a run that is done has
\* issued exactly the commands of the sequence.
C11_RunFollowsTheSequence ==
    /\ \A t \in Tables : \A i \in Issued("truncate_silver", t) :
          \A b \in Tables : \E j \in At("read_sql", b, "ok") : j < i
    /\ \A t \in Tables : \A i \in Issued("clean", t) \cup Issued("to_sql", t) :
          \A u \in Tables : \E j \in At("truncate_silver", u, "ok") : j < i
    /\ \A t \in Tables : Cardinality(Issued("to_sql", t)) <= 1
    /\ \A t \in Tables : t \in loaded <=> At("to_sql", t, "ok") # {}
    /\ \A t \in Tables : silver[t] # <<StaleRow>> => At("truncate_silver", t, "ok") # {}
    /\ \A e \in {TABLES.erp[i] : i \in 1..Len(TABLES.erp)} :
          \A i \in Issued("clean", e) \cup Issued("to_sql", e) :
             \A c \in {TABLES.crm[k] : k \in 1..Len(TABLES.crm)} :
                \E j \in At("to_sql", c, "ok") : j < i
    /\ pc \in {"idle", "extract"} => log = <<>>
    /\ pc \notin {"idle", "extract", "failed"} => IsPrefixOf(log, WholeRunLog)
    /\ pc \in {"finish", "done"} => log = WholeRunLog /\ loaded = Tables

\* A run that went through all the stages and appended to the six tables.
C11_Witness ==
    /\ pc = "done"
    /\ log = WholeRunLog
    /\ \A t \in Tables : Len(silver[t]) = 1 /\ silver[t] # <<StaleRow>>

\* ------------------------------------------------------- failed extraction

\* The contents of the silver tables before the run.
PreRunSilver == [t \in Tables |-> <<StaleRow>>]

ReadFailed == \E t \in Tables : At("read_sql", t, "raised") # {}

\* C13: when the read of a bronze table fails, extract_data raises and
\* returns no frame (dfs stays unassigned, whatever was read before), the run
\* ends there with status 1, and no silver table has been truncated or
\* appended to: every silver table holds what it held before the run.
C13_FailedExtractionLeavesSilver ==
    (ReadFailed \/ error = "read_sql") =>
        /\ ReadFailed /\ error = "read_sql"
        /\ dfs = NoFrames
        /\ pc = "failed" /\ exit_code = 1
        /\ silver = PreRunSilver
        /\ loaded = {}
        /\ \A t \in Tables : Issued("truncate_silver", t) = {} /\ Issued("to_sql", t) = {}
        /\ log[Len(log)].result = "raised"

\* The fourth read failed after three tables had been read.
C13_Witness ==
    /\ At("read_sql", TablesFiles[4], "raised") # {}
    /\ DOMAIN data_frames = {TablesFiles[i] : i \in 1..3}
    /\ dfs = NoFrames
    /\ pc = "failed"

\* ------------------------------------------------------- failed truncation

TruncateFailed == \E t \in Tables : At("truncate_silver", t, "failed") # {}

\* C14: when the TRUNCATE of a silver table fails, the process exits with
\* status 1 at once: the run appends to no silver table, so every silver
\* table is empty (truncated before the failure) or holds its pre-run rows.
C14_FailedTruncationWritesNothing ==
    (TruncateFailed \/ error = "truncate") =>
        /\ TruncateFailed /\ error = "truncate"
        /\ pc = "failed" /\ exit_code = 1
        /\ loaded = {}
        /\ \A t \in Tables : Issued("to_sql", t) = {} /\ Issued("clean", t) = {}
        /\ \A t \in Tables : silver[t] \in {<<>>, PreRunSilver[t]}
        /\ log[Len(log)].result = "failed"

\* The third TRUNCATE failed: two tables are empty, four hold stale rows.
C14_Witness ==
    /\ At("truncate_silver", TablesFiles[3], "failed") # {}
    /\ \A i \in 1..2 : silver[TablesFiles[i]] = <<>>
    /\ \A i \in 3..Len(TablesFiles) : silver[TablesFiles[i]] = <<StaleRow>>
    /\ exit_code = 1

\* ------------------------------------------------------- no rollback

CrmTables == {TABLES.crm[i] : i \in 1..Len(TABLES.crm)}
ErpTables == {TABLES.erp[i] : i \in 1..Len(TABLES.erp)}

\* The rows this run appends to a CRM table: the cleaning of its bronze rows.
CleanedCrm(t) ==
    CASE t = "crm_customer_info" -> CleanCrmCustomerInfo(bronze[t])
      [] t = "crm_prd_info" -> CleanCrmPrdInfo(bronze[t])
      [] OTHER -> CleanCrmSalesDetails(bronze[t]).rows

\* The cleaning or the append of an ERP table failed.
ErpStepFailed ==
    /\ pc = "failed"
    /\ \E e \in ErpTables : At("clean", e, "raised") \cup At("to_sql", e, "raised") # {}

\* C15: there is no rollback. When the cleaning or the append of an ERP
\* table fails, the three CRM silver tables hold the rows this run cleaned
\* and appended, and every ERP table the run has not appended to holds no row
\* of this run: it is empty, as truncate_tables left it.
C15_ErpFailureKeepsCrm ==
    ErpStepFailed =>
        /\ exit_code = 1
        /\ CrmTables \subseteq loaded
        /\ \A c \in CrmTables : silver[c] = CleanedCrm(c) /\ silver[c] # <<>>
        /\ \A e \in ErpTables \ loaded :
              /\ silver[e] = <<>>
              /\ At("to_sql", e, "ok") = {}

\* The append to erp_loc_a101 failed: the CRM tables and erp_cust_az12 are
\* populated, erp_loc_a101 and erp_px_cat_g1v2 are empty.
C15_Witness ==
    /\ pc = "failed"
    /\ At("to_sql", "erp_loc_a101", "raised") # {}
    /\ loaded = CrmTables \cup {"erp_cust_az12"}
    /\ \A c \in loaded : Len(silver[c]) = 1
    /\ silver["erp_loc_a101"] = <<>> /\ silver["erp_px_cat_g1v2"] = <<>>

\* silver.py is run a second time once a first run has ended with status 0:
\* a new process, over the same bronze tables and the silver tables the first
\* run left.
RunSilverLayerAgain ==
    /\ pc = "done"
    /\ previous = Null
    /\ previous' = [silver |-> silver, current_date |-> current_date]
    /\ pc' = "idle"
    /\ dfs' = NoFrames
    /\ data_frames' = NoFrames
    /\ exit_code' = "running"
    /\ current_date' = Null
    /\ loaded' = {}
    /\ error' = ""
    /\ log' = <<>>
    /\ UNCHANGED <<files, bronze, silver, script, astype_null>>

NextTwice ==
    \/ RunSilverLayer
    \/ ExtractData
    \/ TruncateTables
    \/ CleanAndLoadCrmCustomerInfo
    \/ CleanAndLoadCrmPrdInfo
    \/ CleanAndLoadCrmSalesDetails
    \/ CleanAndLoadErpCustAz12
    \/ CleanAndLoadErpLocA101
    \/ LoadErpPxCatG1v2
    \/ Finish
    \/ RunSilverLayerAgain

SpecTwice == InitRun /\ [][NextTwice]_vars

\* ------------------------------------------------------- two runs

SecondRunDone == pc = "done" /\ previous # Null

\* C16 as stated: after a second run over unchanged bronze tables every
\* silver table holds exactly what it held after the first run.
C16_SecondRunLeavesSameContents ==
    SecondRunDone => silver = previous.silver

\* The raw birthdate lies between the instants of the two runs: not before
\* the first, before the second.
BetweenTheRuns(bdate) ==
    /\ IsTs(ToDatetimeCoerce(bdate))
    /\ ~TsLt(ToDatetimeCoerce(bdate), previous.current_date)
    /\ TsLt(ToDatetimeCoerce(bdate), current_date)

\* C16 as the code has it: after a second run over unchanged bronze tables
\* every silver table holds as many rows as after the first run, no row is
\* duplicated or accumulated, and the rows are the same but for the bdate of
\* erp_cust_az12, which depends on the clock: the two runs differ on it
\* exactly when the raw birthdate lies between the instants of the two runs,
\* and then it is null after the first run and kept after the second.
C16_SecondRunSameUpToTheClock ==
    SecondRunDone =>
        /\ \A t \in Tables \ {"erp_cust_az12"} : silver[t] = previous.silver[t]
        /\ \A t \in Tables : Len(silver[t]) = Len(bronze[t])
        /\ Len(silver["erp_cust_az12"]) = Len(previous.silver["erp_cust_az12"])
        /\ \A i \in DOMAIN silver["erp_cust_az12"] :
              LET now == silver["erp_cust_az12"][i]
                  before == previous.silver["erp_cust_az12"][i]
                  raw == bronze["erp_cust_az12"][i].bdate
              IN  /\ [now EXCEPT !.bdate = Null] = [before EXCEPT !.bdate = Null]
                  /\ now.bdate # before.bdate <=> BetweenTheRuns(raw)
                  /\ BetweenTheRuns(raw) =>
                        before.bdate = Null /\ now.bdate = ToDatetimeCoerce(raw)

\* Two runs have ended, the second later in the day than the first, over a
\* birthdate that lies between them.
C16_Witness ==
    /\ SecondRunDone
    /\ TsLt(previous.current_date, current_date)
    /\ BetweenTheRuns(bronze["erp_cust_az12"][1].bdate)
    /\ \A t \in Tables : Len(silver[t]) = 1

\* ------------------------------------------- init_db.py, bronze.py, app.py

\* A text is a sequence of words here. Contains(text, part) is Python's
\* "part in text": part occurs in text as one stretch.
Contains(text, part) ==
    \E i \in 1..(Len(text) - Len(part) + 1) :
        SubSeq(text, i, i + Len(part) - 1) = part

IGNORABLE_ERRORS == << <<"is", "being", "accessed", "by", "other", "users">> >>

\* The script paths of SQL_SCRIPTS, in their declared order.
SQL_SCRIPTS ==
    << "drop_and_create.sql", "set_up_datawarehouse.sql",
       "ddl_bronze.sql", "ddl_silver.sql" >>

\* What psql may write to stderr: nothing, the error of a database in use,
\* another error, and two texts that hold words of the ignorable error but
\* not the error itself.
BusyText == <<"ERROR:", "database", "is", "being", "accessed", "by", "other", "users">>
Stderrs ==
    { <<>>, BusyText, <<"ERROR:", "syntax", "error">>,
      <<"is", "being", "accessed">>,
      <<"accessed", "by", "other", "users", "is", "being">> }

\* A run_psql_script that takes every failure for an ignorable one.
RunPsqlScriptForgives(returncode, stderr, ignorable_errors) == TRUE

\* run_psql_script (the definition in force, the second of the file): TRUE
\* when psql returned 0, or when its error text holds an ignorable error.
RunPsqlScript(returncode, stderr, ignorable_errors) ==
    IF returncode # 0
    THEN IF \E i \in DOMAIN ignorable_errors : Contains(stderr, ignorable_errors[i])
         THEN TRUE
         ELSE FALSE
    ELSE TRUE

\* What subprocess.run may come to: psql returns 0 (whatever it wrote), psql
\* returns non-zero with an error text, or the call itself raises.
PsqlResults ==
    {[returncode |-> 0, stderr |-> e] : e \in {<<>>, BusyText}}
        \cup {[returncode |-> 1, stderr |-> e] : e \in Stderrs}

ScriptEvent(on, result, stderr) ==
    [op |-> "script", on |-> on, result |-> result, stderr |-> stderr]

\* One turn of the loop of set_up_data_warehouse: the next script is run;
\* the loop goes on when run_psql_script returns TRUE, and the process exits
\* with status 1 when it returns FALSE or raises.
SetUpDataWarehouse ==
    /\ pc = "set_up"
    /\ \/ \E r \in PsqlResults :
             /\ log' = Append(log, ScriptEvent(SQL_SCRIPTS[script],
                                   IF r.returncode = 0 THEN "ok" ELSE "failed", r.stderr))
             /\ IF RunPsqlScript(r.returncode, r.stderr, IGNORABLE_ERRORS)
                THEN /\ script' = script + 1
                     /\ pc' = IF script = Len(SQL_SCRIPTS) THEN "bronze_crm" ELSE "set_up"
                     /\ UNCHANGED <<exit_code, error>>
                ELSE /\ Exit1("set_up")
                     /\ UNCHANGED script
       \/ /\ log' = Append(log, ScriptEvent(SQL_SCRIPTS[script], "raised", <<>>))
          /\ Exit1("set_up")
          /\ UNCHANGED script
    /\ UNCHANGED <<files, bronze, dfs, data_frames, silver, current_date,
                   astype_null, loaded, previous>>

\* The k-th psql command of load_tables over the tables pairs: TRUNCATE and
\* COPY of the first table, then of the second, and so on.
BronzeCommand(pairs, k, result) ==
    Event(IF k % 2 = 1 THEN "truncate_bronze" ELSE "copy", pairs[(k + 1) \div 2], result)

\* A load_tables that goes on to the next stage after a failed command.
LoadTablesGoesOn(source, next) ==
    LET pairs == TABLES[source] IN
    \E k \in 0..(2 * Len(pairs)) :
        /\ bronze' = [t \in Tables |->
               IF \E i \in 1..Len(pairs) : pairs[i] = t /\ 2 * i <= k THEN <<>> \o files[t]
               ELSE IF \E i \in 1..Len(pairs) : pairs[i] = t /\ 2 * i - 1 <= k THEN <<>>
               ELSE bronze[t]]
        /\ log' = log \o [j \in 1..k |-> BronzeCommand(pairs, j, "ok")]
                      \o (IF k = 2 * Len(pairs) THEN <<>>
                          ELSE <<BronzeCommand(pairs, k + 1, "failed")>>)
        /\ pc' = next
        /\ UNCHANGED <<exit_code, error>>

\* load_tables and its caller's test of the result: the first k commands
\* succeed, each table being truncated and then filled from its file; with k
\* below the number of commands the next one fails, load_tables returns -1
\* and load_bronze_layer exits with status 1.
LoadTables(source, next) ==
    LET pairs == TABLES[source] IN
    \E k \in 0..(2 * Len(pairs)) :
        /\ bronze' = [t \in Tables |->
               IF \E i \in 1..Len(pairs) : pairs[i] = t /\ 2 * i <= k THEN <<>> \o files[t]
               ELSE IF \E i \in 1..Len(pairs) : pairs[i] = t /\ 2 * i - 1 <= k THEN <<>>
               ELSE bronze[t]]
        /\ IF k = 2 * Len(pairs)
           THEN /\ log' = log \o [j \in 1..k |-> BronzeCommand(pairs, j, "ok")]
                /\ pc' = next
                /\ UNCHANGED <<exit_code, error>>
           ELSE /\ log' = log \o [j \in 1..k |-> BronzeCommand(pairs, j, "ok")]
                              \o <<BronzeCommand(pairs, k + 1, "failed")>>
                /\ Exit1("bronze")

LoadBronzeCrm ==
    /\ pc = "bronze_crm"
    /\ LoadTables("crm", "bronze_erp")
    /\ UNCHANGED <<files, dfs, data_frames, silver, script, current_date,
                   astype_null, loaded, previous>>

LoadBronzeErp ==
    /\ pc = "bronze_erp"
    /\ LoadTables("erp", "idle")
    /\ UNCHANGED <<files, dfs, data_frames, silver, script, current_date,
                   astype_null, loaded, previous>>

\* app.py: set_up_data_warehouse, load_bronze_layer, run_silver_layer.
NextApp ==
    \/ SetUpDataWarehouse
    \/ LoadBronzeCrm
    \/ LoadBronzeErp
    \/ RunSilverLayer
    \/ ExtractData
    \/ TruncateTables
    \/ CleanAndLoadCrmCustomerInfo
    \/ CleanAndLoadCrmPrdInfo
    \/ CleanAndLoadCrmSalesDetails
    \/ CleanAndLoadErpCustAz12
    \/ CleanAndLoadErpLocA101
    \/ LoadErpPxCatG1v2
    \/ Finish

\* The state before app.py runs over the CSV files f: both schemas hold the
\* rows of an earlier run.
InitApp ==
    \E s \in RunSalesRows :
        /\ files = RunBronze(s, Ts(1, 0))
        /\ bronze = [t \in Tables |-> <<StaleRow>>]
        /\ dfs = NoFrames
        /\ data_frames = NoFrames
        /\ silver = [t \in Tables |-> <<StaleRow>>]
        /\ pc = "set_up"
        /\ script = 1
        /\ exit_code = "running"
        /\ current_date = Null
        /\ astype_null \in AstypeStrOfNull
        /\ loaded = {}
        /\ error = ""
        /\ log = <<>>
        /\ previous = Null

SpecApp == InitApp /\ [][NextApp]_vars

\* ------------------------------------------------------- provisioning

\* The script commands of the log; they come first in it.
ScriptEvents == {i \in DOMAIN log : log[i].op = "script"}

\* The error text holds an allowlisted error as one stretch of its words.
Allowlisted(stderr) ==
    \E k \in 1..(Len(stderr) - 5) :
        /\ stderr[k] = "is" /\ stderr[k + 1] = "being" /\ stderr[k + 2] = "accessed"
        /\ stderr[k + 3] = "by" /\ stderr[k + 4] = "other" /\ stderr[k + 5] = "users"

\* The script command at position i let the provisioning go on.
WentOn(i) ==
    i < Len(log) \/ (pc \in {"set_up", "bronze_crm"} /\ script = i + 1)

\* The script command at position i ended the process.
EndedTheProcess(i) == i = Len(log) /\ pc = "failed" /\ exit_code = 1 /\ script = i

\* C17: the SQL scripts run in their declared order. A script that succeeds,
\* or that fails with an error text holding an allowlisted substring, is
\* taken for a success and the next script (or the next stage) follows; any
\* other failure ends the process with status 1 and no later script is run.
C17_ScriptsInOrderIgnorableForgiven ==
    /\ \A i \in ScriptEvents :
          /\ i <= Len(SQL_SCRIPTS)
          /\ \A j \in 1..i : log[j].op = "script" /\ log[j].on = SQL_SCRIPTS[j]
          /\ log[i].result = "ok" => WentOn(i)
          /\ (log[i].result = "failed" /\ Allowlisted(log[i].stderr)) => WentOn(i)
          /\ (log[i].result = "failed" /\ ~Allowlisted(log[i].stderr)) => EndedTheProcess(i)
          /\ log[i].result = "raised" => EndedTheProcess(i)
    /\ pc = "set_up" => Len(log) = script - 1 /\ script <= Len(SQL_SCRIPTS)
    /\ pc \notin {"set_up", "failed"} => ScriptEvents = 1..Len(SQL_SCRIPTS)

\* The first script failed on a database in use and was forgiven, the second
\* went through, the third failed with another error and ended the process.
C17_Witness ==
    /\ Len(log) = 3
    /\ log[1] = ScriptEvent(SQL_SCRIPTS[1], "failed", BusyText)
    /\ log[2].result = "ok"
    /\ log[3].result = "failed" /\ ~Allowlisted(log[3].stderr) /\ log[3].stderr # <<>>
    /\ pc = "failed" /\ exit_code = 1

\* ------------------------------------------------------- the full ETL run

BronzeOps == {"truncate_bronze", "copy"}
SilverOps == {"read_sql", "truncate_silver", "clean", "to_sql"}

BronzeEvents == {i \in DOMAIN log : log[i].op \in BronzeOps}
SilverEvents == {i \in DOMAIN log : log[i].op \in SilverOps}

\* The tables that come after t in the order of the bronze load.
LaterTables(t) == {u \in Tables : TableIndex(u) > TableIndex(t)}

\* C19: the stages run in the order provisioning, bronze load, silver run.
\* In the bronze load each table is truncated before its file is copied into
\* it and the CRM tables come before the ERP tables. At the first failing
\* TRUNCATE or COPY no later bronze table is touched, the process exits with
\* status 1 and the silver stage does not start.
C19_StagesInOrderBronzeStopsAtFailure ==
    /\ \A i \in BronzeEvents :
          /\ ScriptEvents = 1..Len(SQL_SCRIPTS)
          /\ \A j \in ScriptEvents : j < i
    /\ \A i \in SilverEvents :
          /\ \A j \in ScriptEvents \cup BronzeEvents : j < i
          /\ \A t \in Tables : At("copy", t, "ok") # {}
    /\ pc \in {"idle", "extract"} => \A t \in Tables : At("copy", t, "ok") # {}
    /\ \A t \in Tables :
          /\ \A i \in Issued("copy", t) : \E j \in At("truncate_bronze", t, "ok") : j < i
          /\ Cardinality(Issued("copy", t)) <= 1
          /\ Cardinality(Issued("truncate_bronze", t)) <= 1
          /\ bronze[t] = (IF At("copy", t, "ok") # {} THEN files[t]
                          ELSE IF At("truncate_bronze", t, "ok") # {} THEN <<>>
                          ELSE <<StaleRow>>)
    /\ \A e \in ErpTables : \A i \in Issued("truncate_bronze", e) :
          \A c \in CrmTables : \E j \in At("copy", c, "ok") : j < i
    /\ \A i \in BronzeEvents : \A j \in BronzeEvents :
          i < j => TableIndex(log[i].on) <= TableIndex(log[j].on)
    /\ \A i \in BronzeEvents : log[i].result # "ok" =>
          /\ i = Len(log)
          /\ pc = "failed" /\ exit_code = 1
          /\ SilverEvents = {}
          /\ silver = PreRunSilver
          /\ \A u \in LaterTables(log[i].on) :
                Issued("truncate_bronze", u) \cup Issued("copy", u) = {}
                    /\ bronze[u] = <<StaleRow>>

\* The COPY into erp_cust_az12 failed: the CRM tables hold their files,
\* erp_cust_az12 is empty, the two later tables are untouched, and the
\* process has ended with status 1 before the silver stage.
C19_Witness ==
    /\ At("copy", "erp_cust_az12", "failed") # {}
    /\ \A c \in CrmTables : bronze[c] = files[c] /\ bronze[c] # <<>>
    /\ bronze["erp_cust_az12"] = <<>>
    /\ bronze["erp_loc_a101"] = <<StaleRow>> /\ bronze["erp_px_cat_g1v2"] = <<StaleRow>>
    /\ pc = "failed" /\ exit_code = 1
    /\ silver = PreRunSilver

\* ------------------------------------------------------- exit status

\* The commands of the bronze load and of the silver run that did not
\* succeed.
FailedSteps == {i \in BronzeEvents \cup SilverEvents : log[i].result # "ok"}

\* C12: when an extraction, a truncation, a cleaning or a load fails, the
\* process exits with a non-zero status; the failed step is not tried again
\* and no step follows it. The process ends with status 0 only when every
\* step of the bronze load and of the silver run succeeded, all of them
\* having been run.
C12_FailureExitsNonZero ==
    /\ \A i \in FailedSteps :
          /\ i = Len(log)
          /\ pc = "failed" /\ exit_code = 1
          /\ Cardinality({j \in DOMAIN log : log[j].op = log[i].op /\ log[j].on = log[i].on}) = 1
    /\ pc = "failed" => exit_code = 1 /\ log # <<>> /\ log[Len(log)].result # "ok"
    /\ pc = "done" =>
          /\ exit_code = 0
          /\ FailedSteps = {}
          /\ \A t \in Tables :
                /\ At("truncate_bronze", t, "ok") # {} /\ At("copy", t, "ok") # {}
                /\ At("read_sql", t, "ok") # {} /\ At("truncate_silver", t, "ok") # {}
                /\ At("clean", t, "ok") # {} /\ At("to_sql", t, "ok") # {}
          /\ loaded = Tables
          /\ SubSeq(log, Len(log) - Len(WholeRunLog) + 1, Len(log)) = WholeRunLog
    /\ pc \notin {"failed", "done"} => exit_code = "running"

\* The cleaning of crm_sales_details raised after two CRM tables had been
\* loaded, and the process ended with status 1.
C12_Witness ==
    /\ log # <<>>
    /\ log[Len(log)] = Event("clean", "crm_sales_details", "raised")
    /\ loaded = {"crm_customer_info", "crm_prd_info"}
    /\ pc = "failed" /\ exit_code = 1

\* ------------------------------------------------------- product key

\* C18: in the product cleaning cat_id is the first 5 characters of the raw
\* product key with every "-" replaced by "_", and the cleaned prd_key is
\* what remains of the raw key after its first 5 characters, so that the
\* 5-character prefix followed by the cleaned prd_key is the raw key.
C18_PrdKeyIsRestAfterFive ==
    PrdTable \in loaded =>
        \A i \in DOMAIN silver[PrdTable] :
            LET raw == bronze[PrdTable][i].prd_key.str
                row == silver[PrdTable][i]
            IN  /\ row.cat_id.str = [k \in 1..5 |-> IF raw[k] = "-" THEN "_" ELSE raw[k]]
                /\ row.prd_key.str = [k \in 1..(Len(raw) - 5) |-> raw[k + 5]]
                /\ SubSeq(raw, 1, 5) \o row.prd_key.str = raw

====
